---- MODULE Spec2Model ----
(***************************************************************************)
(* A model of redox-os/contain: the policy validator (runner.rs), the      *)
(* path resolver and request handlers of the filter scheme                 *)
(* (filterscheme.rs), the supervisor (contain_thread.rs) and the           *)
(* fork/exec/wait runner (runner.rs).                                      *)
(*                                                                         *)
(* A Rust String is a sequence of one-character strings, so that           *)
(* starts_with, contains, split_once, trim_start_matches, sort and the     *)
(* Path operations are computed character by character as the code does.   *)
(***************************************************************************)
EXTENDS Integers, Sequences, FiniteSets, TLC

VARIABLES
    raw,        \* the ContainConfig handed to run_contained / validate_config
    schemes,    \* what list_schemes() returns: Listed(names) or IoFail
    config,     \* the ContainConfig after validate_config
    vres        \* "raw" before validation, then "ok", "ConfigError" or "SyscallError"

vvars == <<raw, schemes, config, vres>>

VARIABLES
    fs,         \* the host file system canonicalize consults
    req,        \* the request a FilterScheme was handed (NoReq before the first)
    resp,       \* what the handler returned for it (NoResp: it did not return)
    hostlog,    \* the host calls the handler made, in order
    euid,       \* effective uid of the process
    egid,       \* effective gid of the process
    panicked,   \* the worker thread panicked (an unwrap on a failed restore)
    tick        \* alternates with every request handed to a handler

rvars == <<fs, req, resp, hostlog, euid, egid, panicked, tick>>

VARIABLES
    command,    \* the scheme of the executable run_contained is to launch
    pc,         \* where the parent is in run_contained / run_in_namespace
    ns,         \* the registrations of the namespace made by mkns (none before)
    ens,        \* the namespace the parent's scheme registrations and opens go to
    child,      \* the forked child process
    worker,     \* the scheme thread: "none", "running" or "exited"
    pipe,       \* writes made to the shutdown pipe
    held,       \* what the process holds of the ContainThread's making
    ret,        \* what run_contained returned to the parent's caller
    status,     \* run_in_namespace's local status in the parent
    zombies,    \* other terminated children of the parent: left, and reaped by the loop
    cause       \* which break or panic ended the scheme thread ("none": it has not ended)

lvars == <<command, pc, ns, ens, child, worker, pipe, held, ret, status, zombies, cause>>

VARIABLES
    inbox,      \* per scheme descriptor, the requests the host delivered that are not yet read
    hand,       \* the requests array of the loop: the request read and not yet answered
    wire        \* the reads and writes the scheme thread made on its scheme descriptors

ovars == <<inbox, hand, wire>>

vars == <<vvars, rvars, lvars, ovars>>

(***************************************************************************)
(* Bounds of the model.                                                    *)
(***************************************************************************)
\* longest Vec<String> of a raw policy field
MaxVec == 2

(***************************************************************************)
(* Strings.                                                                *)
(***************************************************************************)
None == <<"None">>

\* byte value of the characters the model uses (String ordering is bytewise)
Ord(c) ==
    CASE c = "." -> 46
      [] c = "/" -> 47
      [] c = ":" -> 58
      [] c = "a" -> 97
      [] c = "f" -> 102
      [] c = "g" -> 103
      [] c = "n" -> 110
      [] c = "r" -> 114
      [] c = "x" -> 120
      [] OTHER   -> 0

\* str::starts_with
StartsWith(s, p) ==
    /\ Len(p) <= Len(s)
    /\ SubSeq(s, 1, Len(p)) = p

\* str::ends_with
EndsWith(s, p) ==
    /\ Len(p) <= Len(s)
    /\ SubSeq(s, Len(s) - Len(p) + 1, Len(s)) = p

\* str::contains
Contains(s, p) ==
    \E i \in 1..(Len(s) - Len(p) + 1) : SubSeq(s, i, i + Len(p) - 1) = p

\* str::trim_start_matches('/')
RECURSIVE TrimStartSlashes(_)
TrimStartSlashes(s) ==
    IF s # <<>> /\ Head(s) = "/" THEN TrimStartSlashes(Tail(s)) ELSE s

\* index of the first occurrence of character c in s, 0 when there is none
RECURSIVE IndexFrom(_, _, _)
IndexFrom(s, c, i) ==
    IF i > Len(s) THEN 0 ELSE IF s[i] = c THEN i ELSE IndexFrom(s, c, i + 1)

FirstIndex(s, c) == IndexFrom(s, c, 1)

\* Ord for String: bytewise lexicographic, a proper prefix first
RECURSIVE StrLess(_, _)
StrLess(s, t) ==
    IF t = <<>> THEN FALSE
    ELSE IF s = <<>> THEN TRUE
    ELSE IF Ord(Head(s)) # Ord(Head(t)) THEN Ord(Head(s)) < Ord(Head(t))
    ELSE StrLess(Tail(s), Tail(t))

\* the elements of a Vec
Elems(v) == { v[i] : i \in 1..Len(v) }

\* an insertion that compares nothing: the element goes last
InsertAtEnd(v, e) == v \o <<e>>

(***************************************************************************)
(* Vec operations used by validate_config.                                 *)
(***************************************************************************)
RECURSIVE InsertSorted(_, _)
InsertSorted(v, e) ==
    IF v = <<>> THEN <<e>>
    ELSE IF StrLess(e, Head(v)) THEN <<e>> \o v
    ELSE <<Head(v)>> \o InsertSorted(Tail(v), e)

\* Vec::sort (stable; equal strings are indistinguishable)
RECURSIVE Sort(_)
Sort(v) ==
    IF v = <<>> THEN <<>> ELSE InsertSorted(Sort(Tail(v)), Head(v))

DedupKeepAll(v) == v

\* Vec::dedup: removes consecutive repeated elements
RECURSIVE Dedup(_)
Dedup(v) ==
    IF Len(v) <= 1 THEN v
    ELSE IF v[1] = v[2] THEN Dedup(Tail(v))
    ELSE <<Head(v)>> \o Dedup(Tail(v))

\* Vec::retain(|scheme| schemes.contains(scheme))
RECURSIVE RetainKnown(_, _)
RetainKnown(v, known) ==
    IF v = <<>> THEN <<>>
    ELSE IF \E i \in 1..Len(known) : known[i] = Head(v)
         THEN <<Head(v)>> \o RetainKnown(Tail(v), known)
         ELSE RetainKnown(Tail(v), known)

\* the closure of the four retain calls:
\* sandbox_schemes.iter().any(|scheme| f.starts_with(&format!("{scheme}:")))
InSandboxedScheme(f, sandbox) ==
    \E i \in 1..Len(sandbox) : StartsWith(f, sandbox[i] \o <<":">>)

RetainEverything(v, sandbox) == v

\* Vec::retain with the closure above
RECURSIVE RetainSandboxed(_, _)
RetainSandboxed(v, sandbox) ==
    IF v = <<>> THEN <<>>
    ELSE IF InSandboxedScheme(Head(v), sandbox)
         THEN <<Head(v)>> \o RetainSandboxed(Tail(v), sandbox)
         ELSE RetainSandboxed(Tail(v), sandbox)

(***************************************************************************)
(* contain_config.rs: the policy record.                                   *)
(***************************************************************************)
ContainConfig(root, pass, sandbox, files, dirs, rofiles, rodirs) ==
    [root |-> root, pass_schemes |-> pass, sandbox_schemes |-> sandbox,
     files |-> files, dirs |-> dirs, rofiles |-> rofiles, rodirs |-> rodirs]

(***************************************************************************)
(* runner.rs: validate_config.                                             *)
(***************************************************************************)
\* list_schemes(): the names read from the root scheme, or a failed open/read
Listed(names) == [ok |-> TRUE, names |-> names]
IoFail == [ok |-> FALSE, names |-> <<>>]

\* the two scheme lists after sort, dedup and retain (lines 81-98)
ValidSchemes(v, known) == RetainKnown(Dedup(Sort(v)), known)

\* a path list after sort, dedup and retain (lines 114-146)
ValidPaths(v, sandbox) == RetainSandboxed(Dedup(Sort(v)), sandbox)

\* a root check that lets every root through
RootAccepted(root, sandbox) == FALSE

\* the chroot test (lines 100-108)
RootNotSandboxed(root, sandbox) ==
    /\ root # None
    /\ ~ \E i \in 1..Len(sandbox) : StartsWith(root, sandbox[i] \o <<":">>)

\* validate_config: [res, config]
validate_config(c, listed) ==
    IF ~listed.ok THEN [res |-> "SyscallError", config |-> c]
    ELSE
    LET known   == listed.names
        pass    == ValidSchemes(c.pass_schemes, known)
        sandbox == ValidSchemes(c.sandbox_schemes, known)
        c1      == [c EXCEPT !.pass_schemes = pass, !.sandbox_schemes = sandbox]
    IN  IF RootNotSandboxed(c.root, sandbox)
        THEN [res |-> "ConfigError", config |-> c1]
        ELSE [res |-> "ok",
              config |-> [c1 EXCEPT !.files   = ValidPaths(c.files, sandbox),
                                    !.dirs    = ValidPaths(c.dirs, sandbox),
                                    !.rofiles = ValidPaths(c.rofiles, sandbox),
                                    !.rodirs  = ValidPaths(c.rodirs, sandbox)]]

(***************************************************************************)
(* The names and URIs policies are drawn from.                             *)
(***************************************************************************)
\* scheme names; the name n is a prefix of the name ng
F == <<"f">>
G == <<"n", "g">>
N == <<"n">>


\* scheme:/seg/seg...
RECURSIVE JoinSegs(_)
JoinSegs(segs) ==
    IF segs = <<>> THEN <<>>
    ELSE IF Len(segs) = 1 THEN segs[1]
    ELSE segs[1] \o <<"/">> \o JoinSegs(Tail(segs))

Uri(scheme, segs) == scheme \o <<":", "/">> \o JoinSegs(segs)

A == <<"a">>
X == <<"x">>

\* sequences over S of length at most n
SeqUpTo(S, n) == UNION { [1..k -> S] : k \in 0..n }

\* what the host's root scheme may list
HostSnapshots ==
    { Listed(<<F, G, N>>), Listed(<<N, F>>), Listed(<<>>), IoFail }

\* raw path lists: entries under two schemes, and one entry with no scheme at all
RawFileLists == SeqUpTo({Uri(F, <<A, X>>), Uri(G, <<X>>)}, MaxVec)
RawDirLists  == SeqUpTo({Uri(F, <<A>>), <<"a">>}, MaxVec)

RawConfigs ==
    { ContainConfig(root, pass, sandbox, fl, dl, fl, dl) :
        root \in {None, Uri(F, <<A>>)},
        pass \in SeqUpTo({N, F}, MaxVec),
        sandbox \in SeqUpTo({F, G}, MaxVec),
        fl \in RawFileLists,
        dl \in RawDirLists }

(***************************************************************************)
(* Flags (libredox::flag, Redox values) and errno names.                   *)
(***************************************************************************)
O_RDONLY == 65536
O_WRONLY == 131072
O_RDWR   == 196608
O_CREAT  == 33554432

\* usize & usize (sixteen clear low bits of both are skipped at once)
RECURSIVE BitAnd(_, _)
BitAnd(a, b) ==
    IF a = 0 \/ b = 0 THEN 0
    ELSE IF a % 65536 = 0 /\ b % 65536 = 0
         THEN 65536 * BitAnd(a \div 65536, b \div 65536)
    ELSE (a % 2) * (b % 2) + 2 * BitAnd(a \div 2, b \div 2)

Ok(v)  == [ok |-> TRUE, val |-> v]
Err(e) == [ok |-> FALSE, val |-> <<e>>]

(***************************************************************************)
(* The host file system behind scheme f, as Path::canonicalize sees it.    *)
(* dirs and files are canonical URIs; links maps the URI of a symbolic     *)
(* link to the canonical URI it resolves to.                               *)
(***************************************************************************)
\* the characters of s before the first c, and those after it (str::split_once)
Before(s, c) == SubSeq(s, 1, FirstIndex(s, c) - 1)
After(s, c)  == SubSeq(s, FirstIndex(s, c) + 1, Len(s))

\* str::split('/')
RECURSIVE Split(_)
Split(s) ==
    IF FirstIndex(s, "/") = 0 THEN <<s>>
    ELSE <<Before(s, "/")>> \o Split(After(s, "/"))

\* the canonical URI of entry seg of directory cur
Child(cur, seg) ==
    IF EndsWith(cur, <<"/">>) THEN cur \o seg ELSE cur \o <<"/">> \o seg

\* index of the last '/' of s, 0 when there is none
RECURSIVE LastSlashFrom(_, _)
LastSlashFrom(s, i) ==
    IF i = 0 THEN 0 ELSE IF s[i] = "/" THEN i ELSE LastSlashFrom(s, i - 1)

LastSlash(s) == LastSlashFrom(s, Len(s))

\* the directory holding canonical URI cur (the scheme root holds itself)
DirOf(cur) ==
    IF EndsWith(cur, <<":", "/">>) THEN cur
    ELSE IF EndsWith(SubSeq(cur, 1, LastSlash(cur)), <<":", "/">>)
         THEN SubSeq(cur, 1, LastSlash(cur))
         ELSE SubSeq(cur, 1, LastSlash(cur) - 1)

NotFound == <<"NotFound">>

\* resolve the segments of a path one by one from directory cur
RECURSIVE Walk(_, _, _)
Walk(hfs, cur, segs) ==
    IF segs = <<>> THEN cur
    ELSE IF cur \notin hfs.dirs THEN NotFound
    ELSE LET seg  == Head(segs)
             next == Child(cur, seg)
         IN  IF seg = <<>> \/ seg = <<".">> THEN Walk(hfs, cur, Tail(segs))
             ELSE IF seg = <<".", ".">> THEN Walk(hfs, DirOf(cur), Tail(segs))
             ELSE IF next \in DOMAIN hfs.links
                  THEN Walk(hfs, hfs.links[next], Tail(segs))
             ELSE IF next \in hfs.dirs \cup hfs.files
                  THEN Walk(hfs, next, Tail(segs))
             ELSE NotFound

\* Path::canonicalize: the canonical URI, or an io::Error
canonicalize(hfs, p) ==
    IF FirstIndex(p, ":") = 0 \/ Before(p, ":") \o <<":", "/">> \notin hfs.dirs
    THEN Err("io")
    ELSE LET c == Walk(hfs, Before(p, ":") \o <<":", "/">>, Split(After(p, ":")))
         IN  IF c = NotFound THEN Err("io") ELSE Ok(c)

\* Path::components: the Normal and ParentDir components ("" and "." vanish)
RECURSIVE NonDot(_)
NonDot(segs) ==
    IF segs = <<>> THEN <<>>
    ELSE IF Head(segs) = <<>> \/ Head(segs) = <<".">> THEN NonDot(Tail(segs))
    ELSE <<Head(segs)>> \o NonDot(Tail(segs))

Components(p) == NonDot(Split(p))

\* Path::file_name: the last component when it is a normal one
file_name(p) ==
    LET c == Components(p)
    IN  IF c = <<>> \/ c[Len(c)] = <<".", ".">> THEN None ELSE c[Len(c)]

\* Path::parent: the path without its last component
parent(p) ==
    LET c == Components(p)
    IN  IF c = <<>> THEN None ELSE JoinSegs(SubSeq(c, 1, Len(c) - 1))

\* PathBuf::push of a relative component
push(p, name) ==
    IF p = <<>> \/ EndsWith(p, <<"/">>) THEN p \o name ELSE p \o <<"/">> \o name

(***************************************************************************)
(* filterscheme.rs: is_allowed, real_path, resolve.                        *)
(***************************************************************************)
\* lines 34-42: ensure there is a slash after the scheme name
SlashAfterScheme(path) ==
    IF FirstIndex(path, ":") # 0 /\ ~Contains(Before(path, ":"), <<"/">>)
    THEN Before(path, ":") \o <<":", "/">> \o TrimStartSlashes(After(path, ":"))
    ELSE path

\* the flag test with the two masks both required to be clear
ReadOnlyFlagsBothClear(flags) ==
    BitAnd(flags, O_RDWR) = 0 /\ BitAnd(flags, O_WRONLY) = 0

\* line 49: flags & O_RDWR == 0 || flags & O_WRONLY == 0
ReadOnlyFlags(flags) ==
    BitAnd(flags, O_RDWR) = 0 \/ BitAnd(flags, O_WRONLY) = 0

\* is_allowed: TRUE for Ok(true), FALSE for Err(EPERM)
is_allowed(c, p, flags) ==
    \E path \in {SlashAfterScheme(p)} :
        IF c.root # None /\ StartsWith(path, c.root) THEN TRUE
        ELSE \/ \E i \in 1..Len(c.files) : path = c.files[i]
             \/ \E i \in 1..Len(c.dirs) : StartsWith(path, c.dirs[i])
             \/ \E i \in 1..Len(c.pass_schemes) : StartsWith(path, c.pass_schemes[i])
             \/ /\ ReadOnlyFlags(flags)
                /\ \/ \E i \in 1..Len(c.rofiles) : path = c.rofiles[i]
                   \/ \E i \in 1..Len(c.rodirs) : StartsWith(path, c.rodirs[i])

\* is_allowed with the pass_schemes clause left out
is_allowed_without_pass(c, p, flags) ==
    is_allowed([c EXCEPT !.pass_schemes = <<>>], p, flags)

\* line 66 and line 87: format!("{}:/{}", &self.scheme, path.trim_start_matches('/'))
full_path(scheme, path) == scheme \o <<":", "/">> \o TrimStartSlashes(path)

\* a real path that is never moved under the root
RealPathNatural(c, scheme, path, flags) == full_path(scheme, path)

\* lines 65-76
real_path(c, scheme, path, flags) ==
    IF ~is_allowed(c, full_path(scheme, path), flags) /\ c.root # None
    THEN c.root \o <<"/">> \o TrimStartSlashes(path)
    ELSE full_path(scheme, path)

\* one host call of a handler, as it is logged in hostlog
Call(name, arg, ok) == [call |-> name, arg |-> arg, ok |-> ok]

\* a traversal check that misses a trailing ".." and a leading "../"
TraversalMidOnly(path) == Contains(path, <<"/", ".", ".", "/">>)

\* line 82: path.contains("../") || path.ends_with("..")
Traversal(path) ==
    Contains(path, <<".", ".", "/">>) \/ EndsWith(path, <<".", ".">>)

\* a resolver that trusts the canonical path without checking it again
ExistingUnchecked(c, rp, flags, canon) ==
    [res |-> IF ~canon.ok THEN Err("EPERM") ELSE Ok(canon.val),
     log |-> <<Call("canonicalize", rp, canon.ok)>>]

\* a resolver that returns the path it was given once its canonical form is
\* admitted
ExistingAsGiven(c, rp, flags, canon) ==
    [res |-> IF ~canon.ok THEN Err("EPERM")
             ELSE IF ~is_allowed(c, canon.val, flags) THEN Err("EPERM")
             ELSE Ok(rp),
     log |-> <<Call("canonicalize", rp, canon.ok)>>]

\* a resolver that falls back on the path it was given when the host cannot
\* canonicalize it
ExistingOrGiven(c, rp, flags, canon) ==
    [res |-> IF ~is_allowed(c, IF canon.ok THEN canon.val ELSE rp, flags) THEN Err("EPERM")
             ELSE Ok(IF canon.ok THEN canon.val ELSE rp),
     log |-> <<Call("canonicalize", rp, canon.ok)>>]

\* lines 95-101: the branch without O_CREAT (canon: what canonicalize returned)
ExistingVerdict(c, rp, flags, canon) ==
    [res |-> IF ~canon.ok THEN Err("EPERM")
             ELSE IF ~is_allowed(c, canon.val, flags) THEN Err("EPERM")
             ELSE Ok(canon.val),
     log |-> <<Call("canonicalize", rp, canon.ok)>>]

ResolveExisting(c, hfs, rp, flags) ==
    ExistingVerdict(c, rp, flags, canonicalize(hfs, rp))

\* a resolver that checks the parent under read-only rules
CreateVerdictReadOnly(c, dir, name, canon) ==
    [res |-> IF ~canon.ok THEN Err("ENOENT")
             ELSE IF ~is_allowed(c, canon.val, O_RDONLY) THEN Err("EPERM")
             ELSE Ok(push(canon.val, name)),
     log |-> <<Call("canonicalize", dir, canon.ok)>>]

\* lines 109-120: the canonical parent is checked with O_RDWR, then the
\* file name is pushed onto it
CreateVerdict(c, dir, name, canon) ==
    [res |-> IF ~canon.ok THEN Err("ENOENT")
             ELSE IF ~is_allowed(c, canon.val, O_RDWR) THEN Err("EPERM")
             ELSE Ok(push(canon.val, name)),
     log |-> <<Call("canonicalize", dir, canon.ok)>>]

\* lines 104-113: file_name() and parent() of the real path
CreateIn(c, hfs, dir, name) ==
    IF name = None THEN [res |-> Err("EINVAL"), log |-> <<>>]
    ELSE IF dir = None THEN [res |-> Err("ENOENT"), log |-> <<>>]
    ELSE CreateVerdict(c, dir, name, canonicalize(hfs, dir))

\* lines 102-121: the O_CREAT branch
ResolveCreate(c, hfs, rp) == CreateIn(c, hfs, parent(rp), file_name(rp))

\* a resolver without the check of the request against the root
ResolveRootUnchecked(c, hfs, scheme, path, flags) ==
    IF Traversal(path) THEN [res |-> Err("EINVAL"), log |-> <<>>]
    ELSE IF BitAnd(flags, O_CREAT) = 0
         THEN ResolveExisting(c, hfs, real_path(c, scheme, path, flags), flags)
         ELSE ResolveCreate(c, hfs, real_path(c, scheme, path, flags))

\* resolve: [res, log], log being the canonicalize calls it made
resolve(c, hfs, scheme, path, flags) ==
    IF Traversal(path) THEN [res |-> Err("EINVAL"), log |-> <<>>]
    ELSE IF c.root # None /\ StartsWith(full_path(scheme, path), c.root)
         THEN [res |-> Err("EINVAL"), log |-> <<>>]
    ELSE IF BitAnd(flags, O_CREAT) = 0
         THEN ResolveExisting(c, hfs, real_path(c, scheme, path, flags), flags)
         ELSE ResolveCreate(c, hfs, real_path(c, scheme, path, flags))

(***************************************************************************)
(* filterscheme.rs: the Scheme handlers xopen, rmdir, unlink.              *)
(* h says which host calls of this request succeed:                        *)
(*   gid_ok, uid_ok: setregid(0, gid), setreuid(0, uid) to the caller's    *)
(*   fwd_ok: the forwarded open / rmdir / unlink                           *)
(*   res_uid_ok, res_gid_ok: setreuid(0, 0), setregid(0, 0)                *)
(***************************************************************************)
NoReq  == [op |-> "none"]
NoResp == [ok |-> FALSE, val |-> <<"none">>]

\* what a handler leaves behind
Outcome(r, log, u, g, p) ==
    [resp |-> r, log |-> log, euid |-> u, egid |-> g, panicked |-> p]

\* a switch that leaves the caller's gid in place when the uid switch fails
ImpersonateWithoutUndo(uid, gid, u0, g0, h) ==
    IF gid # 0 /\ ~h.gid_ok
    THEN [ok |-> FALSE, log |-> <<Call("setregid", gid, FALSE)>>, euid |-> u0, egid |-> g0]
    ELSE LET l1 == IF gid # 0 THEN <<Call("setregid", gid, TRUE)>> ELSE <<>>
             g1 == IF gid # 0 THEN gid ELSE g0
         IN  IF uid # 0 /\ ~h.uid_ok
             THEN [ok |-> FALSE, log |-> l1 \o <<Call("setreuid", uid, FALSE)>>,
                   euid |-> u0, egid |-> g1]
             ELSE [ok |-> TRUE,
                   log |-> l1 \o (IF uid # 0 THEN <<Call("setreuid", uid, TRUE)>> ELSE <<>>),
                   euid |-> IF uid # 0 THEN uid ELSE u0,
                   egid |-> g1]

\* lines 133-144 (167-178, 197-208): switch to the caller's gid, then uid
\* [ok, log, euid, egid]
Impersonate(uid, gid, u0, g0, h) ==
    IF gid # 0 /\ ~h.gid_ok
    THEN [ok |-> FALSE, log |-> <<Call("setregid", gid, FALSE)>>, euid |-> u0, egid |-> g0]
    ELSE LET l1 == IF gid # 0 THEN <<Call("setregid", gid, TRUE)>> ELSE <<>>
             g1 == IF gid # 0 THEN gid ELSE g0
         IN  IF uid # 0 /\ ~h.uid_ok
             THEN [ok |-> FALSE,
                   log |-> l1 \o <<Call("setreuid", uid, FALSE)>>
                              \o (IF gid # 0 THEN <<Call("setregid", 0, h.res_gid_ok)>>
                                  ELSE <<>>),
                   euid |-> u0,
                   egid |-> IF gid # 0 /\ h.res_gid_ok THEN 0 ELSE g1]
             ELSE [ok |-> TRUE,
                   log |-> l1 \o (IF uid # 0 THEN <<Call("setreuid", uid, TRUE)>> ELSE <<>>),
                   euid |-> IF uid # 0 THEN uid ELSE u0,
                   egid |-> g1]

\* resolve(...).and_then(|resolved| host call): [res, log]
Forward(op, rs, h) ==
    IF ~rs.res.ok THEN rs
    ELSE [res |-> IF ~h.fwd_ok THEN Err("EACCES")
                  ELSE IF op = "open" THEN Ok(rs.res.val) ELSE Ok(<<"0">>),
          log |-> rs.log \o <<Call(op, rs.res.val, h.fwd_ok)>>]

\* an open that answers every denial with EACCES
RestoreMasking(uid, gid, imp, fw, h) ==
    Outcome(IF fw.res.ok THEN fw.res ELSE Err("EACCES"),
            imp.log \o fw.log
               \o (IF uid # 0 THEN <<Call("setreuid", 0, h.res_uid_ok)>> ELSE <<>>)
               \o (IF gid # 0 THEN <<Call("setregid", 0, h.res_gid_ok)>> ELSE <<>>),
            IF uid # 0 /\ h.res_uid_ok THEN 0 ELSE imp.euid,
            IF gid # 0 /\ h.res_gid_ok THEN 0 ELSE imp.egid,
            FALSE)

\* xopen lines 152-158: let _ = setreuid(0, 0); let _ = setregid(0, 0)
RestoreIgnoring(uid, gid, imp, fw, h) ==
    Outcome(fw.res,
            imp.log \o fw.log
               \o (IF uid # 0 THEN <<Call("setreuid", 0, h.res_uid_ok)>> ELSE <<>>)
               \o (IF gid # 0 THEN <<Call("setregid", 0, h.res_gid_ok)>> ELSE <<>>),
            IF uid # 0 /\ h.res_uid_ok THEN 0 ELSE imp.euid,
            IF gid # 0 /\ h.res_gid_ok THEN 0 ELSE imp.egid,
            FALSE)

\* rmdir lines 182-187, unlink lines 212-217: setreuid(0, 0).unwrap();
\* setregid(0, 0).unwrap()
RestoreUnwrap(uid, gid, imp, fw, h) ==
    IF uid # 0 /\ ~h.res_uid_ok
    THEN Outcome(NoResp, imp.log \o fw.log \o <<Call("setreuid", 0, FALSE)>>,
                 imp.euid, imp.egid, TRUE)
    ELSE LET l1 == imp.log \o fw.log
                     \o (IF uid # 0 THEN <<Call("setreuid", 0, TRUE)>> ELSE <<>>)
             u1 == IF uid # 0 THEN 0 ELSE imp.euid
         IN  IF gid # 0 /\ ~h.res_gid_ok
             THEN Outcome(NoResp, l1 \o <<Call("setregid", 0, FALSE)>>, u1, imp.egid, TRUE)
             ELSE Outcome(fw.res,
                          l1 \o (IF gid # 0 THEN <<Call("setregid", 0, TRUE)>> ELSE <<>>),
                          u1, IF gid # 0 THEN 0 ELSE imp.egid, FALSE)

\* a handler that goes on to the Resolver after a refused switch
HandleAsUnswitched(r, h, imp, fw) ==
    IF r.op = "open" THEN RestoreIgnoring(r.uid, r.gid, imp, fw, h)
    ELSE RestoreUnwrap(r.uid, r.gid, imp, fw, h)

\* the body shared by the three handlers; rmdir and unlink resolve with flags 0
HandleAs(r, h, imp, fw) ==
    IF ~imp.ok THEN Outcome(Err("EPERM"), imp.log, imp.euid, imp.egid, FALSE)
    ELSE IF r.op = "open" THEN RestoreIgnoring(r.uid, r.gid, imp, fw, h)
    ELSE RestoreUnwrap(r.uid, r.gid, imp, fw, h)

Handle(c, hfs, r, u0, g0, h) ==
    HandleAs(r, h, Impersonate(r.uid, r.gid, u0, g0, h),
             Forward(r.op, resolve(c, hfs, r.scheme, r.path, r.flags), h))

(***************************************************************************)
(* The requests and host behaviours a handler is tried on.                 *)
(***************************************************************************)
\* most segments of a request path
MaxSegs == 2

Dot    == <<".">>
DotDot == <<".", ".">>

SegNames == {<<>>, DotDot, A, X}

\* longer paths with ".." in the middle, names that only contain "..", and
\* paths with "." segments
ExtraPaths ==
    { JoinSegs(<<A, DotDot, X>>), JoinSegs(<<<<>>, A, DotDot, X>>),
      JoinSegs(<<A, <<".", ".", "a">>, X>>), JoinSegs(<<<<"a", ".", ".">>, X>>),
      JoinSegs(<<<<"a", ".", ".">>>>), JoinSegs(<<A, A, X>>),
      JoinSegs(<<Dot>>), JoinSegs(<<Dot, X>>), JoinSegs(<<A, Dot>>),
      JoinSegs(<<A, Dot, X>>) }

Paths ==
    { JoinSegs(segs) : segs \in UNION { [1..k -> SegNames] : k \in 1..MaxSegs } }
        \cup ExtraPaths

OpenFlags ==
    { mode + creat : mode \in {O_RDONLY, O_WRONLY, O_RDWR}, creat \in {0, O_CREAT} }

HostOk == [gid_ok |-> TRUE, uid_ok |-> TRUE, fwd_ok |-> TRUE,
           res_uid_ok |-> TRUE, res_gid_ok |-> TRUE]

\* all calls succeed, or exactly one kind of call fails
HostOutcomes ==
    { HostOk,
      [HostOk EXCEPT !.gid_ok = FALSE],
      [HostOk EXCEPT !.uid_ok = FALSE],
      [HostOk EXCEPT !.fwd_ok = FALSE],
      [HostOk EXCEPT !.res_uid_ok = FALSE],
      [HostOk EXCEPT !.res_gid_ok = FALSE] }

\* a caller with a host behaviour; calls the handler skips for this caller succeed
Scenarios ==
    ({[uid |-> 0, gid |-> 0]} \X {HostOk, [HostOk EXCEPT !.fwd_ok = FALSE]})
        \cup ({[uid |-> 1, gid |-> 1]} \X HostOutcomes)
        \cup ({[uid |-> 1, gid |-> 0]} \X {HostOk, [HostOk EXCEPT !.uid_ok = FALSE]})

Request(op, scheme, path, flags, ctx) ==
    [op |-> op, scheme |-> scheme, path |-> path, flags |-> flags,
     uid |-> ctx.uid, gid |-> ctx.gid]

HostFs(dirs, files, links) == [dirs |-> dirs, files |-> files, links |-> links]

NoLinks == [u \in {} |-> <<>>]

\* scheme f with no file system behind it (used where no request is served)
NoFs == HostFs({}, {}, NoLinks)

HostFileSystems ==
    { \* plain: f:/a/x and f:/x are files, f:/a/a does not exist
      HostFs({Uri(F, <<>>), Uri(F, <<A>>)}, {Uri(F, <<A, X>>), Uri(F, <<X>>)}, NoLinks),
      \* f:/x is a symbolic link to f:/a/x, f:/a/a one to the scheme root
      HostFs({Uri(F, <<>>), Uri(F, <<A>>)}, {Uri(F, <<A, X>>)},
             [u \in {Uri(F, <<X>>), Uri(F, <<A, A>>)} |->
                 IF u = Uri(F, <<X>>) THEN Uri(F, <<A, X>>) ELSE Uri(F, <<>>)]) }

\* raw policies of the served sandbox: scheme f sandboxed, n passed through
RequestPolicies ==
    { ContainConfig(root, <<N>>, <<F>>, files, dirs, rofiles, rodirs) :
        root \in {None, Uri(F, <<A>>)},
        files \in {<<>>, <<Uri(F, <<A>>)>>},
        dirs \in {<<>>, <<Uri(F, <<A>>)>>},
        rofiles \in {<<>>, <<Uri(F, <<A, X>>), Uri(F, <<X>>)>>},
        rodirs \in {<<>>, <<Uri(F, <<A>>)>>} }

(***************************************************************************)
(* Request handling on its own: one request against every validated        *)
(* policy and host file system.                                            *)
(***************************************************************************)
\* ContainResult<i32> of run_contained: kind "Ok" with a status word, or the
\* ContainError variant ("none": it has not returned)
Ret(kind, word) == [kind |-> kind, status |-> word]

NoZombies == [left |-> 0, reaped |-> 0]

NoRet == Ret("none", 0)

\* nothing of a ContainThread is held
Nothing ==
    [made |-> FALSE, fds |-> {}, queue |-> FALSE, rpipe |-> FALSE, wpipe |-> FALSE,
     subs |-> {}]

\* no child has been forked
NoChild == [state |-> "none", ns |-> "host", status |-> 0,
            execfailed |-> FALSE, reaped |-> FALSE]

\* no run_contained call is under way
IdleLife ==
    /\ command = F
    /\ pc = "idle"
    /\ ns = {}
    /\ ens = "host"
    /\ child = NoChild
    /\ worker = "none"
    /\ pipe = 0
    /\ held = Nothing
    /\ ret = NoRet
    /\ status = 0
    /\ zombies = NoZombies
    /\ cause = "none"
    /\ inbox = <<>>
    /\ hand = <<>>
    /\ wire = <<>>

IdleRequest ==
    /\ fs = NoFs
    /\ req = NoReq
    /\ resp = NoResp
    /\ hostlog = <<>>
    /\ euid = 0
    /\ egid = 0
    /\ panicked = FALSE
    /\ tick = 0

InitRequest ==
    /\ raw \in RequestPolicies
    /\ schemes = Listed(<<F, G, N>>)
    /\ validate_config(raw, schemes).res = "ok"
    /\ config = validate_config(raw, schemes).config
    /\ vres = "ok"
    /\ fs \in HostFileSystems
    /\ req = NoReq
    /\ resp = NoResp
    /\ hostlog = <<>>
    /\ euid = 0
    /\ egid = 0
    /\ panicked = FALSE
    /\ tick = 0
    /\ IdleLife

\* a handler runs to completion on request r under host behaviour h
Serve(r, h) ==
    /\ \E o \in {Handle(config, fs, r, euid, egid, h)} :
           /\ req' = r
           /\ resp' = o.resp
           /\ hostlog' = o.log
           /\ euid' = o.euid
           /\ egid' = o.egid
           /\ panicked' = o.panicked
           /\ tick' = 1 - tick
    /\ UNCHANGED <<vvars, fs, lvars, ovars>>

\* the worker hands a request to a handler only while it serves
Serving == vres = "ok" /\ req = NoReq /\ ~panicked

xopen ==
    /\ Serving
    /\ \E scheme \in Elems(config.sandbox_schemes), path \in Paths,
          flags \in OpenFlags, sc \in Scenarios :
           Serve(Request("open", scheme, path, flags, sc[1]), sc[2])

rmdir ==
    /\ Serving
    /\ \E scheme \in Elems(config.sandbox_schemes), path \in Paths, sc \in Scenarios :
           Serve(Request("rmdir", scheme, path, 0, sc[1]), sc[2])

unlink ==
    /\ Serving
    /\ \E scheme \in Elems(config.sandbox_schemes), path \in Paths, sc \in Scenarios :
           Serve(Request("unlink", scheme, path, 0, sc[1]), sc[2])

NextRequest == xopen \/ rmdir \/ unlink

SpecRequest == InitRequest /\ [][NextRequest]_vars

(***************************************************************************)
(* Validation on its own: every raw policy against every host snapshot.    *)
(***************************************************************************)
InitValidate ==
    /\ raw \in RawConfigs
    /\ schemes \in HostSnapshots
    /\ config = raw
    /\ vres = "raw"
    /\ IdleRequest
    /\ IdleLife

\* run_contained line 38: let config = validate_config(config)?
Validate ==
    /\ vres = "raw"
    /\ LET v == validate_config(raw, schemes)
       IN  /\ vres' = v.res
           /\ config' = v.config
    /\ UNCHANGED <<raw, schemes, rvars, lvars, ovars>>

NextValidate == Validate

SpecValidate == InitValidate /\ [][NextValidate]_vars

(***************************************************************************)
(* contain_thread.rs and runner.rs: the supervisor and the runner.         *)
(***************************************************************************)
\* lib.rs: pub const CONTAIN_EXEC_FAIL_EXIT: i32 = 13
CONTAIN_EXEC_FAIL_EXIT == 13

\* a registration of a namespace: a scheme name and who serves it, the host
\* scheme itself ("host") or a FilterScheme of this process ("filter")
Binding(name, via) == [name |-> name, via |-> via]
Names(space) == { b.name : b \in space }

\* a namespace seeded with every scheme of the caller
MknsEverything(pass, host) == { Binding(s, "host") : s \in host }

\* syscall::mkns(&pass_scheme_ptrs): the named schemes of the caller's
\* namespace, bound to the host's schemes
mkns(pass, host) == { Binding(s, "host") : s \in { n \in host : n \in Elems(pass) } }

\* lines 47-61: for each sandbox scheme in turn, Fd::open(":name", O_CREAT |
\* O_RDWR | O_CLOEXEC) and a FilterScheme for it; the first error returns.
\* The host refuses a name the namespace already holds (EEXIST), and the
\* open numbered bad
RECURSIVE Register(_, _, _, _)
Register(space, sandbox, i, bad) ==
    IF i > Len(sandbox) THEN [ok |-> TRUE, space |-> space]
    ELSE IF i = bad \/ sandbox[i] \in Names(space) THEN [ok |-> FALSE, space |-> space]
    ELSE Register(space \cup {Binding(sandbox[i], "filter")}, sandbox, i + 1, bad)

\* the namespace made, the scheme descriptors (by scheme name), the event
\* queue and the two ends of the shutdown pipe that are open in the process.
\* ContainThread::new returns them all or, its Vec of Fd and its event queue
\* dropped by the early return, the namespace alone
Holding(ok, names) ==
    [made |-> TRUE, fds |-> IF ok THEN names ELSE {},
     queue |-> ok, rpipe |-> ok, wpipe |-> ok, subs |-> {}]

\* the read end of the shutdown pipe, as a subscribed descriptor
ReadPipe == <<"read_pipe">>

\* subscriptions in which the pipe takes the key of the first scheme
SubscriptionsSharedKey(sandbox) ==
    { [key |-> i - 1, fd |-> sandbox[i]] : i \in 1..Len(sandbox) }
        \cup {[key |-> 0, fd |-> ReadPipe]}

\* lines 79-92 and 115-125: subscribe(scheme_fd.raw(), i, READ) for every i
\* in 0..schemes.len(), then subscribe(read_pipe, schemes.len(), READ)
Subscriptions(sandbox) ==
    { [key |-> i - 1, fd |-> sandbox[i]] : i \in 1..Len(sandbox) }
        \cup {[key |-> Len(sandbox), fd |-> ReadPipe]}

\* line 155: schemes[event.user_data] for the event of a subscribed scheme fd
SubscribedAt(h, sandbox, fd) ==
    \E i \in 1..Len(sandbox) : sandbox[i] = fd /\ [key |-> i - 1, fd |-> fd] \in h.subs

\* what ContainThread::new leaves behind: its result, the namespace made, the
\* namespace the process is left in, and the scheme thread
Built(kind, space, e, w) ==
    [kind |-> kind, ns |-> space, ens |-> e, worker |-> w,
     held |-> Holding(kind = "Ok", { b.name : b \in { x \in space : x.via = "filter" } })]

\* lines 41-61 once the namespace is made: enter it, register, leave it, then
\* the event queue, the pipe and the thread (lines 62-217)
Supervise(c, seeded, h) ==
    IF ~h.enter_ok THEN Built("SyscallError", seeded, "host", "none")
    ELSE LET reg == Register(seeded, c.sandbox_schemes, 1, h.bad)
         IN  IF ~reg.ok THEN Built("SyscallError", reg.space, "new", "none")
             ELSE IF ~h.leave_ok THEN Built("SyscallError", reg.space, "new", "none")
             ELSE IF h.tail # "Ok" THEN Built(h.tail, reg.space, "host", "none")
             ELSE [Built("Ok", reg.space, "host", "running")
                      EXCEPT !.held.subs = Subscriptions(c.sandbox_schemes)]

\* ContainThread::new(config) in a process whose namespace holds the schemes host
ContainThread_new(c, host, h) ==
    IF ~h.mkns_ok THEN [Built("SyscallError", {}, "host", "none") EXCEPT !.held = Nothing]
    ELSE Supervise(c, mkns(c.pass_schemes, host), h)

\* a drop that sends nothing
DropSilently(p) == p

\* Drop for ContainThread: one write to the shutdown pipe (the count of
\* writes after it); the thread is not joined and the pipe is not closed
Drop(p) == p + 1

\* the host word for a process that exited with code
WaitStatus(code) == code * 256

\* a child whose failed exec ends in exit(1)
ExecFailureExitsOne(c) ==
    [c EXCEPT !.state = "exited", !.status = WaitStatus(1), !.execfailed = TRUE]

\* run_in_namespace lines 166-169: exec returned, exit(CONTAIN_EXEC_FAIL_EXIT)
ExecFailure(c) ==
    [c EXCEPT !.state = "exited", !.status = WaitStatus(CONTAIN_EXEC_FAIL_EXIT),
              !.execfailed = TRUE]

(***************************************************************************)
(* The life of one run_contained call.                                     *)
(***************************************************************************)
SupervisorOk ==
    [mkns_ok |-> TRUE, enter_ok |-> TRUE, bad |-> 0, leave_ok |-> TRUE, tail |-> "Ok"]

\* the host lets everything through, or refuses exactly one call
SupervisorOutcomes(c) ==
    {SupervisorOk, [SupervisorOk EXCEPT !.mkns_ok = FALSE],
     [SupervisorOk EXCEPT !.enter_ok = FALSE], [SupervisorOk EXCEPT !.leave_ok = FALSE],
     [SupervisorOk EXCEPT !.tail = "SyscallError"], [SupervisorOk EXCEPT !.tail = "IoError"]}
        \cup { [SupervisorOk EXCEPT !.bad = i] : i \in 1..Len(c.sandbox_schemes) }

Commands == {F, G, N}
ExitCodes == {0, 1, CONTAIN_EXEC_FAIL_EXIT}

LifeConfigs ==
    { ContainConfig(root, pass, sandbox, <<>>, <<>>, <<>>, <<>>) :
        root \in {None, Uri(F, <<A>>)},
        pass \in SeqUpTo({N, F}, MaxVec),
        sandbox \in SeqUpTo({F, G}, MaxVec) }

Init ==
    /\ raw \in LifeConfigs
    /\ schemes \in HostSnapshots
    /\ config = raw
    /\ vres = "raw"
    /\ IdleRequest
    /\ command \in Commands
    /\ pc = "start"
    /\ ns = {}
    /\ ens = "host"
    /\ child = NoChild
    /\ worker = "none"
    /\ pipe = 0
    /\ held = Nothing
    /\ ret = NoRet
    /\ status = 0
    /\ zombies = NoZombies
    /\ cause = "none"
    /\ inbox = <<>>
    /\ hand = <<>>
    /\ wire = <<>>

\* run_contained lines 38-42 after a successful validation
Construct(t) ==
    /\ ns' = t.ns
    /\ ens' = t.ens
    /\ worker' = t.worker
    /\ held' = t.held
    /\ ret' = IF t.kind = "Ok" THEN ret ELSE Ret(t.kind, 0)
    /\ pc' = IF t.kind = "Ok" THEN "thread" ELSE "done"

\* run_contained up to its call of run_in_namespace
Validated(v) ==
    /\ vres' = v.res
    /\ config' = v.config
    /\ IF v.res # "ok"
       THEN /\ ret' = Ret(v.res, 0)
            /\ pc' = "done"
            /\ UNCHANGED <<ns, ens, worker, held>>
       ELSE \E h \in SupervisorOutcomes(v.config) :
                Construct(ContainThread_new(v.config, Elems(schemes.names), h))

run_contained ==
    /\ pc = "start"
    /\ Validated(validate_config(raw, schemes))
    /\ UNCHANGED <<raw, schemes, rvars, command, child, pipe, status, zombies, cause, ovars>>

\* run_in_namespace lines 153-158: fork; on failure the error is returned and
\* the ContainThread dropped, which writes to the shutdown pipe
Fork ==
    /\ pc = "thread"
    /\ \E ok \in BOOLEAN :
          /\ child' = IF ok THEN [NoChild EXCEPT !.state = "forked"] ELSE child
          /\ pc' = IF ok THEN "waiting" ELSE "done"
          /\ ret' = IF ok THEN ret ELSE Ret("IoError", 0)
          /\ pipe' = IF ok THEN pipe ELSE Drop(pipe)
    /\ UNCHANGED <<vvars, rvars, command, ns, ens, worker, held, status, zombies, cause, ovars>>

\* lines 160-164 in the child: setrens(namespace, namespace)?
ChildEnter ==
    /\ child.state = "forked"
    /\ \E ok \in BOOLEAN :
          child' = IF ok THEN [child EXCEPT !.state = "confined", !.ns = "new"]
                   ELSE [child EXCEPT !.state = "escaped"]
    /\ UNCHANGED <<vvars, rvars, command, pc, ns, ens, worker, pipe, ret, held, status, zombies, cause, ovars>>

\* line 166: command.exec(), which cannot succeed when the command's scheme is
\* not in the child's namespace
ChildExec ==
    /\ child.state = "confined"
    /\ \E ok \in { b \in BOOLEAN : b => command \in Names(ns) } :
          child' = IF ok THEN [child EXCEPT !.state = "running"] ELSE ExecFailure(child)
    /\ UNCHANGED <<vvars, rvars, command, pc, ns, ens, worker, pipe, ret, held, status, zombies, cause, ovars>>

\* the launched command exits
ChildExit ==
    /\ child.state = "running"
    /\ \E code \in ExitCodes :
          child' = [child EXCEPT !.state = "exited", !.status = WaitStatus(code)]
    /\ UNCHANGED <<vvars, rvars, command, pc, ns, ens, worker, pipe, ret, held, status, zombies, cause, ovars>>

\* the child whose setrens failed returns the error from run_in_namespace and
\* run_contained: its copy of the ContainThread is dropped, which writes to
\* the shutdown pipe it shares with the parent, and its caller ends the process
EscapedReturn ==
    /\ child.state = "escaped"
    /\ \E code \in ExitCodes :
          child' = [child EXCEPT !.state = "exited", !.status = WaitStatus(code)]
    /\ pipe' = Drop(pipe)
    /\ UNCHANGED <<vvars, rvars, command, pc, ns, ens, worker, ret, held, status, zombies, cause, ovars>>

\* the most other terminated children the parent has when its wait returns
MaxZombies == 2

\* the status word of such a child: it exited with a code the command's
\* child never uses
ZombieStatus == WaitStatus(2)

KeepLast(st, c_status) == c_status

\* lines 178-188: waitpid(0, &mut c_status, WNOHANG) writes the status of
\* the zombie to c_status, a variable of the loop body; status is not written
AfterReap(st, c_status) == st

\* lines 171-175 in the parent: the blocking waitpid(pid, &mut status, 0)
\* returns the child; the parent has some number of other zombies then
WaitChild ==
    /\ pc = "waiting"
    /\ child.state = "exited"
    /\ child' = [child EXCEPT !.reaped = TRUE]
    /\ status' = child.status
    /\ \E n \in 0..MaxZombies : zombies' = [left |-> n, reaped |-> 0]
    /\ pc' = "reaping"
    /\ UNCHANGED <<vvars, rvars, command, ns, ens, worker, pipe, held, ret, cause, ovars>>

\* lines 177-188, one turn of the loop: waitpid(0, .., WNOHANG) returns the
\* pid of a zombie, which is thereby reaped, and the loop goes on
Reap ==
    /\ pc = "reaping"
    /\ zombies.left > 0
    /\ zombies' = [left |-> zombies.left - 1, reaped |-> zombies.reaped + 1]
    /\ status' = AfterReap(status, ZombieStatus)
    /\ UNCHANGED <<vvars, rvars, command, pc, ns, ens, child, worker, pipe, held, ret, cause, ovars>>

\* lines 177-195, the last turn: waitpid(0, .., WNOHANG) returns 0 because no
\* zombie is left, or fails, which unwrap_or_else turns into 0; break,
\* Ok(status); run_contained returns it and the ContainThread is dropped
ReapEnd ==
    /\ pc = "reaping"
    /\ \E failed \in BOOLEAN : zombies.left = 0 \/ failed
    /\ ret' = Ret("Ok", status)
    /\ pc' = "done"
    /\ pipe' = Drop(pipe)
    /\ UNCHANGED <<vvars, rvars, command, ns, ens, child, worker, held, status, zombies, cause, ovars>>

\* lines 172-175: the blocking waitpid returns an error, which is returned;
\* the ContainThread is dropped
WaitFails ==
    /\ pc = "waiting"
    /\ ret' = Ret("SyscallError", 0)
    /\ pc' = "done"
    /\ pipe' = Drop(pipe)
    /\ UNCHANGED <<vvars, rvars, command, ns, ens, child, worker, held, status, zombies, cause, ovars>>

\* a thread that ends without closing its scheme descriptors
StoppedOpen(h) == [h EXCEPT !.queue = FALSE]

\* the scheme thread is over: its scheme fds are closed (lines 205-207) and
\* the event queue it owns is dropped; the pipe's ends are plain integers
\* that nothing closes
Stopped(h) == [h EXCEPT !.fds = {}, !.queue = FALSE, !.subs = {}]

\* contain_thread.rs lines 130-136: the event queue delivers the event of
\* the shutdown pipe, which is readable once written; break 'events
WorkerStop ==
    /\ worker = "running"
    /\ pipe > 0
    /\ [key |-> Len(config.sandbox_schemes), fd |-> ReadPipe] \in held.subs
    /\ worker' = "exited"
    /\ cause' = "pipe"
    /\ held' = Stopped(held)
    /\ UNCHANGED <<vvars, rvars, command, pc, ns, ens, child, pipe, ret, status, zombies, ovars>>

\* the breaks of the loop that neither the shutdown pipe nor a response
\* causes: an unexpected index (lines 137-140, 200-203), an event queue error
\* (142-145), an event queue that yields no event (146-149), a read of zero
\* requests (161-164), a read error (169-172)
Breaks == {"unknown_key", "queue_error", "queue_end", "read_zero", "read_error"}

\* lines 137-149 and 161-172: break 'events
WorkerFail ==
    /\ worker = "running"
    /\ worker' = "exited"
    /\ cause' \in Breaks
    /\ held' = Stopped(held)
    /\ UNCHANGED <<vvars, rvars, command, pc, ns, ens, child, pipe, ret, status, zombies, ovars>>

Next ==
    \/ run_contained
    \/ Fork
    \/ ChildEnter
    \/ ChildExec
    \/ ChildExit
    \/ EscapedReturn
    \/ WaitChild
    \/ Reap
    \/ ReapEnd
    \/ WaitFails
    \/ WorkerStop
    \/ WorkerFail

Spec == Init /\ [][Next]_vars

\* the parent is a running process: it takes the next turn of its reap loop
SpecFair == Spec /\ WF_vars(Reap \/ ReapEnd)


(***************************************************************************)
(* The scheme thread at work while the parent waits for its child          *)
(* (contain_thread.rs lines 129-209).                                      *)
(***************************************************************************)
\* the policy served: f:/a read-write, f:/x read-only
ServePolicy ==
    ContainConfig(None, <<N>>, <<F>>, <<>>, <<Uri(F, <<A>>)>>, <<Uri(F, <<X>>)>>, <<>>)

PlainFs ==
    HostFs({Uri(F, <<>>), Uri(F, <<A>>)}, {Uri(F, <<A, X>>), Uri(F, <<X>>)}, NoLinks)

\* [op, path, flags]: admitted and denied requests of each kind
ServeRequests ==
    { <<"open", JoinSegs(<<A, X>>), O_RDWR>>,
      <<"open", JoinSegs(<<X>>), O_WRONLY>>,
      <<"unlink", JoinSegs(<<A, X>>), 0>>,
      <<"unlink", JoinSegs(<<A, DotDot, X>>), 0>>,
      <<"rmdir", JoinSegs(<<A>>), 0>>,
      <<"rmdir", JoinSegs(<<A, A>>), 0>> }

\* ContainThread::new(policy) has returned, the child is forked and contained
\* and runs, the parent waits for it
Started(policy) ==
    /\ raw = policy
    /\ schemes = Listed(<<F, G, N>>)
    /\ config = validate_config(raw, schemes).config
    /\ vres = "ok"
    /\ fs = PlainFs
    /\ req = NoReq
    /\ resp = NoResp
    /\ hostlog = <<>>
    /\ euid = 0
    /\ egid = 0
    /\ panicked = FALSE
    /\ tick = 0
    /\ command = F
    /\ pc = "waiting"
    /\ \E t \in {ContainThread_new(config, Elems(schemes.names), SupervisorOk)} :
          /\ ns = t.ns
          /\ ens = t.ens
          /\ worker = t.worker
          /\ held = t.held
    /\ child = [NoChild EXCEPT !.state = "running", !.ns = "new"]
    /\ pipe = 0
    /\ ret = NoRet
    /\ status = 0
    /\ zombies = NoZombies
    /\ cause = "none"

InitServe ==
    /\ Started(ServePolicy)
    /\ inbox = <<>>
    /\ hand = <<>>
    /\ wire = <<>>

\* a worker loop that ends on every failure response
AnsweredOrQuit(o, r, w) ==
    /\ req' = r
    /\ resp' = o.resp
    /\ hostlog' = IF o.panicked THEN o.log ELSE o.log \o <<Call("write_responses", r.path, w)>>
    /\ euid' = o.euid
    /\ egid' = o.egid
    /\ panicked' = o.panicked
    /\ tick' = 1 - tick
    /\ worker' = IF o.panicked \/ ~w \/ ~o.resp.ok THEN "exited" ELSE "running"
    /\ cause' = IF o.panicked THEN "panic"
                ELSE IF ~w THEN "write_error"
                ELSE IF ~o.resp.ok THEN "failure_response" ELSE cause
    /\ held' = IF o.panicked \/ ~w \/ ~o.resp.ok THEN Stopped(held) ELSE held

\* lines 181-196: write_responses, then the next event, or break 'events when
\* the write fails or is short; a handler that panicked wrote nothing and
\* ended the thread
Answered(o, r, w) ==
    /\ req' = r
    /\ resp' = o.resp
    /\ hostlog' = IF o.panicked THEN o.log
                  ELSE o.log \o <<Call("write_responses", r.path, w)>>
    /\ euid' = o.euid
    /\ egid' = o.egid
    /\ panicked' = o.panicked
    /\ tick' = 1 - tick
    /\ worker' = IF o.panicked \/ ~w THEN "exited" ELSE "running"
    /\ cause' = IF o.panicked THEN "panic" ELSE IF ~w THEN "write_error" ELSE cause
    /\ held' = IF o.panicked \/ ~w THEN Stopped(held) ELSE held

\* a handler that takes the lock for writing and empties the read-only lists
AfterWrite(c) == [c EXCEPT !.rofiles = <<>>, !.rodirs = <<>>]

\* filterscheme.rs lines 129, 163, 193: self.config.read() gives the handler
\* shared access to the record for the length of the call; nothing is written
AfterRead(c) == c

\* lines 130-203, one turn of the loop on a scheme event: a request is read,
\* handed to the scheme's handler and answered
WorkerServe ==
    /\ worker = "running"
    /\ SubscribedAt(held, config.sandbox_schemes, F)
    /\ \E q \in ServeRequests, sc \in Scenarios :
          \E r \in {Request(q[1], F, q[2], q[3], sc[1])} :
             \E o \in {Handle(config, fs, r, euid, egid, sc[2])} :
                \E w \in BOOLEAN : Answered(o, r, w)
    /\ config' = AfterRead(config)
    /\ UNCHANGED <<raw, schemes, vres, fs, command, pc, ns, ens, child, pipe, ret, status,
                   zombies, ovars>>

NextServe ==
    \/ WorkerServe
    \/ WorkerStop
    \/ WorkerFail
    \/ ChildExit
    \/ WaitChild
    \/ Reap
    \/ ReapEnd
    \/ WaitFails

SpecServe == InitServe /\ [][NextServe]_vars

\* the event queue delivers the event of a descriptor that stays ready
SpecServeFair == SpecServe /\ WF_vars(WorkerStop)

(***************************************************************************)
(* The traffic on the scheme descriptors, one read and one write at a      *)
(* time: requests arrive on two scheme descriptors, the loop reads one,    *)
(* hands it to the handler and writes the response.                        *)
(***************************************************************************)
\* most requests the host delivers to one scheme descriptor
MaxRequests == 2

OrderPolicy ==
    ContainConfig(None, <<N>>, <<F, G>>, <<>>, <<Uri(F, <<A>>)>>, <<>>, <<>>)

\* the scheme descriptors of the thread, by the scheme each was opened for
SchemeFds == Elems(config.sandbox_schemes)

\* [op, path, flags]: an admitted and a denied request
OrderRequests ==
    { <<"open", JoinSegs(<<A, X>>), O_RDWR>>,
      <<"unlink", JoinSegs(<<X>>), 0>> }

OrderCallers == {[uid |-> 0, gid |-> 0], [uid |-> 1, gid |-> 1]}

OrderOutcomes == {HostOk, [HostOk EXCEPT !.res_uid_ok = FALSE]}

InitOrder ==
    /\ Started(OrderPolicy)
    /\ inbox = [fd \in {F, G} |-> <<>>]
    /\ hand = <<>>
    /\ wire = <<>>

ReadOf(fd, k) == [ev |-> "read", fd |-> fd, k |-> k]

WriteOf(fd, k, ok) == [ev |-> "write", fd |-> fd, k |-> k, ok |-> ok]

\* the requests read from fd so far
ReadFrom(fd) == { i \in 1..Len(wire) : wire[i].ev = "read" /\ wire[i].fd = fd }

\* the host delivers one more request to the scheme descriptor fd; requests
\* on a descriptor are numbered in the order of their delivery
Deliver ==
    /\ \E fd \in SchemeFds :
          /\ Cardinality(ReadFrom(fd)) + Len(inbox[fd]) < MaxRequests
          /\ inbox' = [inbox EXCEPT ![fd] =
                          Append(@, Cardinality(ReadFrom(fd)) + Len(@) + 1)]
    /\ UNCHANGED <<vvars, rvars, lvars, hand, wire>>

\* a write of the response to the first scheme descriptor
FirstFd(fd) == F

\* line 181: write_responses(scheme_fd.raw(), ..) with the scheme_fd the
\* request was read from (line 156)
ResponseFd(fd) == fd

\* a second thread of control that takes events while a request is in hand
AtQueueOrBusy == worker \in {"running", "handling"}

\* line 130: the one scheme thread (spawned once, line 128) is at
\* event_queue.next(), which it reaches only after the previous turn's write
AtQueue == worker = "running"

\* lines 129-173: the event of a readable scheme descriptor is taken and
\* read_requests fills the one-element requests array from it
ReadRequest ==
    /\ AtQueue
    /\ \E fd \in SchemeFds, q \in OrderRequests, ctx \in OrderCallers :
          /\ inbox[fd] # <<>>
          /\ SubscribedAt(held, config.sandbox_schemes, fd)
          /\ hand' = <<[fd |-> fd, k |-> Head(inbox[fd]),
                        r |-> Request(q[1], fd, q[2], q[3], ctx)]>>
          /\ inbox' = [inbox EXCEPT ![fd] = Tail(@)]
          /\ wire' = Append(wire, ReadOf(fd, Head(inbox[fd])))
    /\ worker' = "handling"
    /\ UNCHANGED <<vvars, rvars, command, pc, ns, ens, child, pipe, held, ret, status,
                   zombies, cause>>

\* lines 175-196: handle_scheme on the request in hand, write_responses, and
\* back to the event queue; or the end of the thread
Respond ==
    /\ worker = "handling"
    /\ \E h \in OrderOutcomes, w \in BOOLEAN :
          \E o \in {Handle(config, fs, hand[1].r, euid, egid, h)} :
             /\ Answered(o, hand[1].r, w)
             /\ wire' = IF o.panicked THEN wire
                        ELSE Append(wire, WriteOf(ResponseFd(hand[1].fd), hand[1].k, w))
             /\ hand' = IF o.panicked \/ ~w THEN hand ELSE <<>>
    /\ UNCHANGED <<vvars, fs, command, pc, ns, ens, child, pipe, ret, status, zombies, inbox>>

NextOrder ==
    \/ Deliver
    \/ ReadRequest
    \/ Respond
    \/ WorkerFail
    \/ WaitFails
    \/ WorkerStop

SpecOrder == InitOrder /\ [][NextOrder]_vars


(***************************************************************************)
(* Claims about the path resolver and the handlers (checked under          *)
(* SpecRequest).                                                           *)
(***************************************************************************)
Served == req # NoReq

\* the calls of the served request that reached the host file system
ForwardedCalls ==
    { hostlog[i] : i \in { j \in 1..Len(hostlog) :
                             hostlog[j].call \in {"open", "unlink", "rmdir"} } }

CanonicalizeCalls ==
    { hostlog[i] : i \in { j \in 1..Len(hostlog) : hostlog[j].call = "canonicalize" } }

\* every setregid / setreuid the handler made succeeded
SwitchesOk ==
    \A i \in 1..Len(hostlog) :
        hostlog[i].call \in {"setregid", "setreuid"} => hostlog[i].ok

\* the handler got as far as consulting the Resolver
ImpersonationOk ==
    \A i \in 1..Len(hostlog) :
        (hostlog[i].call \in {"setregid", "setreuid"} /\ hostlog[i].arg # 0)
            => hostlog[i].ok

\* ".." is one of the '/'-separated segments of path
HasDotDotSegment(path) ==
    \E i \in 1..Len(Split(path)) : Split(path)[i] = DotDot

\* the URI a request names: S:/P with P's leading slashes stripped
NaturalUri == full_path(req.scheme, req.path)

\* the access mode of an open's flags, and whether it carries write intent
AccessMode(flags) == ((flags \div O_RDONLY) % 4) * O_RDONLY
WriteBearing(flags) == AccessMode(flags) \in {O_WRONLY, O_RDWR}

\* the clauses of the admission predicate
MatchedReadOnly(c, u) ==
    \/ u \in Elems(c.rofiles)
    \/ \E d \in Elems(c.rodirs) : StartsWith(u, d)

MatchedReadWrite(c, u) ==
    \/ c.root # None /\ StartsWith(u, c.root)
    \/ u \in Elems(c.files)
    \/ \E d \in Elems(c.dirs) : StartsWith(u, d)
    \/ \E d \in Elems(c.pass_schemes) : StartsWith(u, d)

\* the admission predicate as specified
Admitted(c, u, flags) ==
    MatchedReadWrite(c, u) \/ (~WriteBearing(flags) /\ MatchedReadOnly(c, u))

\* C1 as stated: for every policy and request kind, a request whose path has
\* ".." as a segment is denied with EINVAL, and nothing is canonicalized or
\* forwarded for it.
C1_TraversalDeniedEinval ==
    (Served /\ HasDotDotSegment(req.path)) =>
        /\ resp = Err("EINVAL")
        /\ ForwardedCalls = {}
        /\ CanonicalizeCalls = {}

\* C1 amended: for every policy and request kind, nothing is canonicalized
\* or forwarded for a request whose path has ".." as a segment, the request
\* never succeeds, and it is denied with EINVAL whenever every credential
\* switch of its handler succeeds (a failed switch to the caller's ids is
\* answered with the switch's error; a failed restore in rmdir/unlink panics).
C1_TraversalNeverResolved ==
    (Served /\ HasDotDotSegment(req.path)) =>
        /\ ~resp.ok
        /\ ForwardedCalls = {}
        /\ CanonicalizeCalls = {}
        /\ SwitchesOk => resp = Err("EINVAL")

C1_Witness ==
    /\ Served
    /\ req.op = "unlink"
    /\ req.uid # 0
    /\ req.path = JoinSegs(<<A, DotDot, X>>)
    /\ config.dirs # <<>>
    /\ resp = Err("EINVAL")

\* C2: for every validated policy, a write-bearing open whose requested URI is
\* matched by rofiles or rodirs and by no other admission clause is denied
\* and never forwarded to the host.
C2_WriteToReadOnlyDenied ==
    (/\ Served
     /\ req.op = "open"
     /\ WriteBearing(req.flags)
     /\ MatchedReadOnly(config, NaturalUri)
     /\ ~MatchedReadWrite(config, NaturalUri)) =>
        /\ ~resp.ok
        /\ ForwardedCalls = {}

\* the URIs an admission test is put to: before a request, every URI of the
\* host file system and every entry of the policy; after it, the URIs the
\* request made the Resolver test
UrisOfState ==
    IF Served
    THEN {NaturalUri} \cup { hostlog[i].arg : i \in { j \in 1..Len(hostlog) :
                                 hostlog[j].call \in {"open", "unlink", "rmdir"} } }
    ELSE fs.dirs \cup fs.files
        \cup UNION { Elems(config[fld]) : fld \in {"files", "dirs", "rofiles", "rodirs"} }

\* C3: is_allowed agrees with the specified admission predicate for every
\* policy, URI and access mode (with and without O_CREAT, and for the flags 0
\* of rmdir/unlink).
C3_IsAllowedIsAdmissionPredicate ==
    \A u \in UrisOfState, flags \in OpenFlags \cup {0} :
        is_allowed(config, u, flags) <=> Admitted(config, u, flags)

C3_Witness ==
    /\ Served
    /\ req.op = "open"
    /\ resp.ok
    /\ NaturalUri \in Elems(config.rofiles)
    /\ is_allowed(config, NaturalUri, O_RDONLY)
    /\ ~is_allowed(config, NaturalUri, O_WRONLY)
    /\ ~is_allowed(config, NaturalUri, O_RDWR)

NonCreation == req.op \in {"unlink", "rmdir"} \/ BitAnd(req.flags, O_CREAT) = 0

\* the URI after the chroot rewrite, and its canonical form on the host
ResolvedUri == real_path(config, req.scheme, req.path, req.flags)
CanonicalUri == canonicalize(fs, ResolvedUri)

ForwardedCanonical(canon) ==
    /\ \A call \in ForwardedCalls :
          /\ call.call = req.op
          /\ canon.ok
          /\ call.arg = canon.val
          /\ Admitted(config, call.arg, req.flags)
    /\ (canon.ok /\ ~Admitted(config, canon.val, req.flags)) =>
          (~resp.ok /\ ForwardedCalls = {})

\* C4: for a request without creation (open without O_CREAT, unlink, rmdir)
\* whatever is forwarded to the host is the requested operation on the
\* host-canonical form of the resolved URI, which is admitted under the
\* request's flags; if the canonical URI is not admitted the request fails
\* and nothing is forwarded.
C4_ForwardedIsCanonicalAndAdmitted ==
    (Served /\ NonCreation) => ForwardedCanonical(CanonicalUri)

C4_Witness ==
    /\ Served
    /\ NonCreation
    /\ req.op = "open"
    /\ resp.ok
    /\ ForwardedCalls # {}
    /\ CanonicalUri.val # ResolvedUri
    /\ ~Admitted(config, NaturalUri, req.flags)

CreatedUnderParent(name, canon) ==
    /\ ForwardedCalls # {} <=> (canon.ok /\ Admitted(config, canon.val, O_RDWR))
    /\ \A call \in ForwardedCalls : call.arg = push(canon.val, name)

CreatedFrom(rp) ==
    CreatedUnderParent(file_name(rp), canonicalize(fs, parent(rp)))

SchemeOf(u) ==
    IF FirstIndex(u, ":") = 0 THEN None ELSE SubSeq(u, 1, FirstIndex(u, ":") - 1)

NoDuplicates(v) == \A i, j \in 1..Len(v) : i # j => v[i] # v[j]

PathFields == {"files", "dirs", "rofiles", "rodirs"}

\* C8: after a successful validation every element of files, dirs, rofiles and
\* rodirs has a scheme that is in the validated sandbox_schemes; what is kept
\* is exactly the raw elements under a sandboxed scheme, the others are
\* dropped, and a policy error never comes from a path entry (only from root).
C8_PathsUnderSandboxedSchemes ==
    /\ vres = "ok" =>
         \A fld \in PathFields :
            /\ \A e \in Elems(config[fld]) :
                  SchemeOf(e) \in Elems(config.sandbox_schemes)
            /\ Elems(config[fld]) =
                  { e \in Elems(raw[fld]) :
                      SchemeOf(e) \in Elems(config.sandbox_schemes) }
    /\ vres = "ConfigError" => raw.root # None

C8_Witness ==
    /\ vres = "ok"
    /\ config.files # <<>>
    /\ config.rodirs # <<>>
    /\ \E e \in Elems(raw.files) : e \notin Elems(config.files)
    /\ \E e \in Elems(raw.rodirs) : e \notin Elems(config.rodirs)

\* C9: after a successful validation pass_schemes and sandbox_schemes are each
\* duplicate-free and hold exactly the raw names the host snapshot lists;
\* dropping an unknown name is not an error (with no root set, validation
\* succeeds whenever the snapshot could be read).
C9_SchemesDedupedAndKnown ==
    /\ vres = "ok" =>
         \A fld \in {"pass_schemes", "sandbox_schemes"} :
            /\ NoDuplicates(config[fld])
            /\ Elems(config[fld]) \subseteq Elems(schemes.names)
            /\ Elems(config[fld]) = Elems(raw[fld]) \cap Elems(schemes.names)
    /\ (vres # "raw" /\ schemes.ok /\ raw.root = None) => vres = "ok"

C9_Witness ==
    /\ vres = "ok"
    /\ ~NoDuplicates(raw.pass_schemes)
    /\ config.pass_schemes # <<>>
    /\ \E s \in Elems(raw.sandbox_schemes) : s \notin Elems(schemes.names)
    /\ config.sandbox_schemes # <<>>

\* C10: after a successful validation no scheme name is both passed through
\* and sandboxed.
C10_PassAndSandboxDisjoint ==
    vres = "ok" =>
        Elems(config.pass_schemes) \cap Elems(config.sandbox_schemes) = {}

(***************************************************************************)
(* Claims about the life of a run_contained call (Spec).                   *)
(***************************************************************************)
\* the child has entered the namespace made for it
ChildContained == child.state \in {"confined", "running"}

\* the namespace the validated policy describes
PolicyNamespace ==
    { Binding(s, "host") : s \in Elems(config.pass_schemes) }
        \cup { Binding(s, "filter") : s \in Elems(config.sandbox_schemes) }

\* C6: the namespace the contained child runs in holds exactly the validated
\* pass_schemes, each bound to the host's scheme, and the validated
\* sandbox_schemes, each bound to a FilterScheme of this process; no scheme
\* is bound twice, and every other scheme of the host is absent from it.
C6_ChildNamespaceIsPolicy ==
    ChildContained =>
        /\ child.ns = "new"
        /\ ns = PolicyNamespace
        /\ \A b1 \in ns, b2 \in ns : b1.name = b2.name => b1 = b2
        /\ \A s \in Elems(schemes.names) :
              s \notin Elems(config.pass_schemes) \cup Elems(config.sandbox_schemes)
                  => s \notin Names(ns)

C6_Witness ==
    /\ child.state = "running"
    /\ config.pass_schemes # <<>>
    /\ config.sandbox_schemes # <<>>
    /\ \E s \in Elems(schemes.names) : s \notin Names(ns)

\* the status word of a child that exited with the sentinel code
SentinelStatus == WaitStatus(CONTAIN_EXEC_FAIL_EXIT)

\* the command's scheme is neither passed through nor sandboxed
CommandOutside ==
    command \notin Elems(config.pass_schemes) \cup Elems(config.sandbox_schemes)

\* C7 as stated: whenever exec fails in the forked child, the child exits
\* with code 13 and run_contained returns Ok(13 << 8).
C7_ExecFailureReturnsSentinel ==
    child.execfailed =>
        /\ child.state = "exited"
        /\ child.status = SentinelStatus
        /\ pc = "done" => ret = Ret("Ok", SentinelStatus)

\* C7 amended: whenever exec fails in the forked child (as it must when the
\* command's scheme is neither passed through nor sandboxed), the child exits
\* with code 13; run_contained returns Ok(13 << 8) if its blocking waitpid
\* succeeds, and the SyscallError of the waitpid if that fails.
C7_ExecFailureSentinelWhenWaited ==
    /\ child.execfailed =>
          /\ child.state = "exited"
          /\ child.status = SentinelStatus
          /\ (pc = "done" /\ child.reaped) => ret = Ret("Ok", SentinelStatus)
          /\ (pc = "done" /\ ~child.reaped) => ret = Ret("SyscallError", 0)
    /\ (CommandOutside /\ child.ns = "new") =>
          /\ child.state # "running"
          /\ child.state = "exited" => child.execfailed

C7_Witness ==
    /\ child.execfailed
    /\ CommandOutside
    /\ pc = "done"
    /\ ret = Ret("Ok", SentinelStatus)

\* the raw root names a scheme that is not among the sandbox schemes the host
\* lists
RootOutside ==
    /\ raw.root # None
    /\ SchemeOf(raw.root) \notin Elems(raw.sandbox_schemes) \cap Elems(schemes.names)

\* C11: if root is set and its scheme is not in the filtered sandbox_schemes,
\* validation fails with ConfigError, and run_contained returns that error
\* having made no namespace, registered no scheme, started no scheme thread
\* and forked no child.
C11_RootOutsideIsConfigError ==
    /\ (pc # "start" /\ schemes.ok /\ RootOutside) => vres = "ConfigError"
    /\ vres = "ConfigError" =>
          /\ RootOutside
          /\ pc = "done"
          /\ ret = Ret("ConfigError", 0)
          /\ held = Nothing
          /\ ns = {}
          /\ ens = "host"
          /\ worker = "none"
          /\ child = NoChild
          /\ pipe = 0

C11_Witness ==
    /\ vres = "ConfigError"
    /\ ret = Ret("ConfigError", 0)
    /\ raw.sandbox_schemes # <<>>
    /\ config.sandbox_schemes = <<>>

(***************************************************************************)
(* More claims about validation (SpecValidate).                            *)
(***************************************************************************)
\* C12: validation is idempotent: with the host snapshot fixed, validating
\* the record a successful validation returned succeeds and returns that
\* record, equal in all seven fields.
C12_ValidationIdempotent ==
    vres = "ok" =>
        validate_config(config, schemes) = [res |-> "ok", config |-> config]

C12_Witness ==
    /\ vres = "ok"
    /\ config.pass_schemes # raw.pass_schemes
    /\ config.files # raw.files
    /\ config.files # <<>>
    /\ config.root # None

(***************************************************************************)
(* Claims about the scheme thread and the drop of the ContainThread        *)
(* (SpecServe, SpecServeFair, Spec).                                       *)
(***************************************************************************)
\* run_contained has returned after a ContainThread was made: it was dropped
Dropped == pc = "done" /\ held.made /\ held.wpipe

\* C13: once the ContainThread is dropped the scheme thread eventually leaves
\* its loop and ends, given that the event queue delivers the event of a
\* descriptor that stays ready, however many requests keep arriving on the
\* scheme descriptors.
C13_DropStopsWorker == Dropped ~> (worker # "running")

C13_Witness ==
    /\ Dropped
    /\ pipe > 0
    /\ req # NoReq
    /\ worker = "exited"
    /\ ~panicked

\* C14: dropping the ContainThread joins the scheme thread: once
\* run_contained has returned after the drop, the scheme thread is over.
C14_DropJoinsWorker == Dropped => worker # "running"

\* C15: after the drop and the end of the scheme thread, every scheme
\* descriptor, the event queue and both ends of the shutdown pipe are closed.
C15_DropReleasesAll ==
    (Dropped /\ worker = "exited")
        => held.fds = {} /\ ~held.queue /\ ~held.rpipe /\ ~held.wpipe

\* C16: nothing is written to the shutdown pipe, by the parent or by the
\* forked child, before the parent's blocking wait for the child has returned.
C16_NoShutdownBeforeWait == (child.state # "none" /\ pipe > 0) => pc = "done"

(***************************************************************************)
(* Claims about the parent's wait (SpecFair).                              *)
(***************************************************************************)
\* C17: run_in_namespace returns the status word the blocking wait for the
\* forked child gave, the child's exit code in its high byte; the loop that
\* reaps further zombies without blocking never changes that status, and it
\* ends.
C17_StatusFromBlockingWait ==
    /\ [](pc = "done" /\ child.reaped
            => /\ ret = Ret("Ok", child.status)
               /\ ret.status \div 256 \in ExitCodes
               /\ ret.status % 256 = 0)
    /\ [][pc = "reaping" => status' = status]_vars
    /\ (pc = "reaping") ~> (pc = "done")

C17_Witness ==
    /\ pc = "done"
    /\ child.reaped
    /\ zombies.reaped = MaxZombies
    /\ ret = Ret("Ok", WaitStatus(1))

(***************************************************************************)
(* Claims about the credentials of the scheme thread (SpecRequest,         *)
(* SpecServe).                                                             *)
(***************************************************************************)
\* the calls of hostlog that set an effective id back to 0
RestoreCalls ==
    { i \in 1..Len(hostlog) :
         hostlog[i].call \in {"setreuid", "setregid"} /\ hostlog[i].arg = 0 }

RestoresOk == \A i \in RestoreCalls : hostlog[i].ok

\* C18: whatever the request (open, unlink, rmdir) and however it ends (gid
\* switch refused, uid switch refused, denied by resolve, refused by the
\* host, served), when the handler has returned and the host let every
\* restoring call through, the effective uid and gid of the process are 0.
C18_ImpersonationReversed ==
    (Served /\ ~panicked /\ RestoresOk) => euid = 0 /\ egid = 0

C18_Witness ==
    /\ Served
    /\ ~panicked
    /\ RestoresOk
    /\ \E i \in 1..Len(hostlog) : hostlog[i].call = "setreuid" /\ ~hostlog[i].ok
    /\ \E i \in RestoreCalls : hostlog[i].call = "setregid"
    /\ euid = 0
    /\ egid = 0

\* C19: once a call restoring the effective uid or gid to 0 has failed at the
\* end of a request, no further request is handed to a handler.
C19_RestoreFailureIsFatal == [][~RestoresOk => tick' = tick]_vars

(***************************************************************************)
(* Claims about request errors in the worker loop (SpecServe).             *)
(***************************************************************************)
\* resolve denied the request: the handler switched to the caller and made
\* no call on the host file system for it
ResolverDenied == Served /\ ImpersonationOk /\ ForwardedCalls = {}

\* the host refused the forwarded operation
HostRefused == \E c \in ForwardedCalls : ~c.ok

\* the response of the request was written to its scheme descriptor
ResponseWritten ==
    /\ hostlog # <<>>
    /\ hostlog[Len(hostlog)] = Call("write_responses", req.path, TRUE)

\* a failure response for the request went out and the loop goes on
FailureAnswered == ~resp.ok /\ resp # NoResp /\ ResponseWritten /\ worker = "running"

\* C20 as stated: whenever resolve denies a request or the host refuses the
\* forwarded operation, a failure response for that request is written and
\* the worker goes on with its loop.
C20_ErrorsArePerRequest ==
    [][(tick' # tick /\ (ResolverDenied' \/ HostRefused')) => FailureAnswered']_vars

\* C20: when resolve denies a request or the host refuses the forwarded
\* operation, and the restoring of the credentials does not panic and the
\* response is written in full, a failure response for that request is
\* written and the worker goes on with its loop.
C20_ErrorsArePerRequestWhenWritten ==
    [][(/\ tick' # tick
        /\ ResolverDenied' \/ HostRefused'
        /\ ~panicked'
        /\ hostlog'[Len(hostlog')].ok) => FailureAnswered']_vars

C20_Witness ==
    /\ req # NoReq
    /\ req.op = "unlink"
    /\ ResolverDenied
    /\ FailureAnswered
    /\ pc = "waiting"

(***************************************************************************)
(* Claims about the ways out of the worker loop (SpecServe).               *)
(***************************************************************************)
\* the last call in hostlog is a write of the response that failed
WriteFailed ==
    /\ hostlog # <<>>
    /\ hostlog[Len(hostlog)].call = "write_responses"
    /\ ~hostlog[Len(hostlog)].ok

\* the ways out the claim lists: the shutdown event, a read of zero requests,
\* a read error on a scheme descriptor or on the event queue, a write error on
\* the response path, an event with an unknown key
ListedCauses ==
    {"pipe", "read_zero", "read_error", "queue_error", "write_error", "unknown_key"}

\* C21 as stated: the worker leaves its loop only by one of the listed ways.
C21_OnlyListedExits == worker = "exited" => cause \in ListedCauses

\* C21: the worker leaves its loop only by one of the listed ways, by an
\* event queue that yields no further event, or by the panic of unlink or
\* rmdir on a failed restore of the credentials; a request whose response is
\* written leaves it running.
C21_OnlyListedExitsQueueEndOrPanic ==
    /\ worker = "running" => cause = "none"
    /\ worker = "exited" =>
          /\ cause \in ListedCauses \cup {"queue_end", "panic"}
          /\ cause = "panic" <=> panicked
          /\ cause = "panic" => req.op \in {"unlink", "rmdir"} /\ ~RestoresOk
          /\ cause = "write_error" => WriteFailed

C21_Witness ==
    /\ worker = "exited"
    /\ cause = "panic"
    /\ req.op = "rmdir"
    /\ ~RestoresOk

\* C22: whichever way the worker leaves its loop (shutdown event, read of
\* zero requests, read or write error, unknown key), every scheme descriptor
\* opened at construction is closed when the thread is over.
C22_ExitClosesSchemes ==
    (worker = "exited" /\ cause \in ListedCauses) => held.fds = {}

C22_Witness ==
    /\ worker = "exited"
    /\ cause = "write_error"
    /\ held.made
    /\ held.fds = {}
    /\ config.sandbox_schemes # <<>>
    /\ ns # {}

(***************************************************************************)
(* Claims about the order of requests and responses (SpecOrder).           *)
(***************************************************************************)
\* C23: on each scheme descriptor the requests are read in the order of
\* their delivery; the response to a request is written to the descriptor it
\* was read from before anything else is read, and every request read gets
\* exactly one response unless the thread ends with it.
C23_ServedInOrder ==
    \A i \in 1..Len(wire) :
       /\ wire[i].ev = "read" =>
             /\ wire[i].k = Cardinality({ j \in ReadFrom(wire[i].fd) : j <= i })
             /\ IF i < Len(wire)
                THEN wire[i + 1] \in { WriteOf(wire[i].fd, wire[i].k, ok) : ok \in BOOLEAN }
                ELSE worker # "running"
       /\ wire[i].ev = "write" =>
             /\ i > 1
             /\ wire[i - 1] = ReadOf(wire[i].fd, wire[i].k)
             /\ ~wire[i].ok => i = Len(wire) /\ worker = "exited"

C23_Witness ==
    /\ worker = "running"
    /\ Len(wire) = 6
    /\ wire[3] = ReadOf(G, 1)
    /\ wire[6] = WriteOf(F, 2, TRUE)
    /\ inbox[G] # <<>>

\* the requests read and not answered
InProcess ==
    { i \in 1..Len(wire) :
         /\ wire[i].ev = "read"
         /\ \A j \in (i + 1)..Len(wire) :
               ~(wire[j].ev = "write" /\ wire[j].fd = wire[i].fd /\ wire[j].k = wire[i].k) }

\* C24: the one scheme thread has at most one request in process over all
\* its scheme descriptors: a request is handed to a handler, which switches
\* to the caller's ids and back, only when no other request is read and
\* unanswered.
C24_OneRequestAtATime ==
    /\ Cardinality(InProcess) <= 1
    /\ Len(hand) <= 1
    /\ worker = "running" => InProcess = {} /\ hand = <<>>
    /\ worker = "handling" => \E i \in InProcess : ReadOf(hand[1].fd, hand[1].k) = wire[i]

C24_Witness ==
    /\ worker = "handling"
    /\ Cardinality(InProcess) = 1
    /\ hand[1].fd = G
    /\ inbox[F] # <<>>
    /\ euid = 0
    /\ req # NoReq
    /\ req.scheme = F
    /\ req.uid = 1

UnderRoot == Served /\ config.root # None /\ StartsWith(NaturalUri, config.root)

\* C26 as stated: with a root configured, a request whose natural URI begins
\* with the root is denied with EINVAL and nothing is forwarded, whatever the
\* allowlists contain.
C26_UnderRootDeniedEinval ==
    UnderRoot => resp = Err("EINVAL") /\ ForwardedCalls = {}

\* C26 amended: with a root configured, a request whose natural URI begins
\* with the root is denied, nothing is canonicalized or forwarded for it,
\* whatever the allowlists contain, and the error is EINVAL whenever the
\* switches to the caller's ids and back all succeeded.
C26_UnderRootNeverResolved ==
    UnderRoot =>
        /\ ~resp.ok
        /\ ForwardedCalls = {}
        /\ CanonicalizeCalls = {}
        /\ SwitchesOk => resp = Err("EINVAL")

C26_Witness ==
    /\ UnderRoot
    /\ ~HasDotDotSegment(req.path)
    /\ req.op = "open"
    /\ req.uid # 0
    /\ SwitchesOk
    /\ config.dirs # <<>>
    /\ Uri(F, <<A, X>>) \in fs.files
    /\ req.path = JoinSegs(<<A, X>>)
    /\ resp = Err("EINVAL")

\* the flags resolve is called with: an open's own, 0 for unlink and rmdir
ResolveFlags == IF req.op = "open" THEN req.flags ELSE 0

\* the URI the chroot rewrite is specified to give
Rewritten ==
    IF config.root # None /\ ~Admitted(config, NaturalUri, ResolveFlags)
    THEN config.root \o <<"/">> \o TrimStartSlashes(req.path)
    ELSE NaturalUri

\* the request got past the credential switch, the traversal check and the
\* root check
PastRootCheck ==
    /\ Served
    /\ ImpersonationOk
    /\ ~Traversal(req.path)
    /\ ~UnderRoot

\* C27: for a request past the traversal and root checks, what goes to
\* canonicalization is root + "/" + the path without its leading slashes when
\* a root is configured and the natural URI is not admitted under the
\* request's flags, and the natural URI otherwise; with O_CREAT it is the
\* parent of that URI that is canonicalized.
C27_ChrootRewrite ==
    PastRootCheck =>
        /\ NonCreation => CanonicalizeCalls # {}
        /\ \A call \in CanonicalizeCalls :
              call.arg = IF NonCreation THEN Rewritten ELSE parent(Rewritten)

C27_Witness ==
    /\ PastRootCheck
    /\ NonCreation
    /\ config.root # None
    /\ config.rofiles # <<>>
    /\ WriteBearing(req.flags)
    /\ req.path = JoinSegs(<<X>>)
    /\ Rewritten = Uri(F, <<A, X>>)
    /\ \E call \in CanonicalizeCalls : call.arg = Rewritten /\ call.ok
    /\ resp.ok

(***************************************************************************)
(* Claims about the pass_schemes clause of is_allowed (SpecValidate).      *)
(***************************************************************************)
\* URIs under the schemes a policy may sandbox
ProbeUris == {Uri(F, <<X>>), Uri(F, <<A, X>>), Uri(G, <<X>>), Uri(G, <<A, X>>)}

\* C28: for a validated policy and a URI under one of its sandboxed schemes,
\* is_allowed decides the same with and without its pass_schemes clause.
C28_PassClauseDefensive ==
    vres = "ok" =>
        \A u \in ProbeUris, flags \in {O_RDONLY, O_RDWR} :
            InSandboxedScheme(u, config.sandbox_schemes)
                => is_allowed(config, u, flags) = is_allowed_without_pass(config, u, flags)

\* the pass_schemes clause alone admits a URI of a sandboxed scheme that is
\* not passed through
PassClauseAdmits ==
    /\ vres = "ok"
    /\ Elems(config.pass_schemes) \cap Elems(config.sandbox_schemes) = {}
    /\ \E u \in ProbeUris :
          /\ InSandboxedScheme(u, config.sandbox_schemes)
          /\ is_allowed(config, u, O_RDWR)
          /\ ~is_allowed_without_pass(config, u, O_RDWR)

(***************************************************************************)
(* Claims about the URI resolve returns (SpecRequest).                     *)
(***************************************************************************)
\* C29: the URI resolve returns for an admitted request without O_CREAT,
\* which is the URI handed to the host, is canonical: canonicalize gives it
\* back unchanged.
C29_ResolvedIsCanonical ==
    (Served /\ NonCreation) =>
        \A call \in ForwardedCalls : canonicalize(fs, call.arg) = Ok(call.arg)

C29_Witness ==
    /\ Served
    /\ NonCreation
    /\ req.op = "open"
    /\ resp.ok
    /\ resp.val # ResolvedUri
    /\ \E call \in ForwardedCalls : call.arg = resp.val /\ call.arg # NaturalUri

(***************************************************************************)
(* Claims about a failed fork (Spec).                                      *)
(***************************************************************************)
\* run_contained returned IoError with a ContainThread made: fork failed
\* (the IoError of a failed pipe2 leaves no ContainThread)
ForkFailed == ret = Ret("IoError", 0) /\ held.wpipe

\* C30: when fork fails run_contained returns IoError; no child exists or
\* runs, the parent waited for nothing, and the drop of the ContainThread has
\* written to the shutdown pipe.
C30_ForkFailure ==
    ForkFailed =>
        /\ pc = "done"
        /\ child = NoChild
        /\ status = 0
        /\ zombies = NoZombies
        /\ pipe = 1

C30_Witness ==
    /\ ForkFailed
    /\ child.state = "none"
    /\ worker = "exited"
    /\ cause = "pipe"
    /\ config.sandbox_schemes # <<>>

(***************************************************************************)
(* Claims about the answer of xopen (SpecRequest).                         *)
(***************************************************************************)
\* an open whose handler got as far as resolve
OpenResolved == Served /\ req.op = "open" /\ ImpersonationOk

\* C31: when resolve denies an open, xopen answers with resolve's error as
\* it is and opens nothing on the host; when resolve admits it and the host
\* open succeeds, the answer is the descriptor of that host open of the
\* resolved URI.
C31_OpenAnswer ==
    OpenResolved =>
        \E rs \in {resolve(config, fs, req.scheme, req.path, req.flags)} :
            /\ ~rs.res.ok => resp = rs.res /\ ForwardedCalls = {}
            /\ rs.res.ok => ForwardedCalls \subseteq {Call("open", rs.res.val, ok) : ok \in BOOLEAN}
            /\ (rs.res.ok /\ Call("open", rs.res.val, TRUE) \in ForwardedCalls)
                  => resp = Ok(rs.res.val)

C31_Witness ==
    /\ OpenResolved
    /\ req.uid # 0
    /\ resp = Err("ENOENT")
    /\ ForwardedCalls = {}
    /\ BitAnd(req.flags, O_CREAT) # 0

(***************************************************************************)
(* Claims about the shutdown signal and requests in hand (SpecOrder).      *)
(***************************************************************************)
\* C32: the shutdown signal ends the scheme thread only between two events:
\* a request read before the pipe was written is answered first, with the
\* credentials restored, and the thread never ends with a caller's effective
\* ids in place.
C32_ShutdownAtEventBoundary ==
    worker = "exited" =>
        /\ cause = "pipe" => hand = <<>> /\ InProcess = {}
        /\ euid = 0
        /\ egid = 0

\* the shutdown signal was taken between two events, after a request read
\* before it was answered, and the thread ended with a caller's uid
ShutdownAsCaller ==
    /\ worker = "exited"
    /\ cause = "pipe"
    /\ hand = <<>>
    /\ wire # <<>>
    /\ euid # 0

(***************************************************************************)
(* Claims about the order of the host calls of one request (SpecRequest).  *)
(***************************************************************************)
\* positions in hostlog of the canonicalizations and forwarded operations
HostWork ==
    { i \in 1..Len(hostlog) :
         hostlog[i].call \in {"canonicalize", "open", "unlink", "rmdir"} }

\* positions of the calls of that name that switch to a caller's id
SwitchCalls(name) ==
    { i \in 1..Len(hostlog) : hostlog[i].call = name /\ hostlog[i].arg # 0 }

\* the call of that name switched to that id before position i
SwitchedBefore(name, id, i) ==
    \E j \in SwitchCalls(name) : j < i /\ hostlog[j].arg = id /\ hostlog[j].ok

\* C33: every canonicalization and every forwarded open, unlink or rmdir of
\* a request comes after the successful switch to the caller's gid and uid
\* (when these are not 0) and before any restoring call; the gid switch
\* precedes the uid switch, the uid restore precedes the gid restore, and
\* after a refused switch nothing is canonicalized or forwarded.
C33_HostWorkAsCaller ==
    Served =>
        /\ \A i \in HostWork :
              /\ req.gid # 0 => SwitchedBefore("setregid", req.gid, i)
              /\ req.uid # 0 => SwitchedBefore("setreuid", req.uid, i)
              /\ \A j \in RestoreCalls : i < j
        /\ \A g \in SwitchCalls("setregid") : \A u \in SwitchCalls("setreuid") : g < u
        /\ \A u \in RestoreCalls : \A g \in RestoreCalls :
              (hostlog[u].call = "setreuid" /\ hostlog[g].call = "setregid") => u < g
        /\ \A s \in SwitchCalls("setregid") \cup SwitchCalls("setreuid") :
              \A j \in RestoreCalls : s < j
        /\ ~ImpersonationOk => HostWork = {}
        /\ (ImpersonationOk /\ req.uid # 0) =>
              \E u \in RestoreCalls : hostlog[u].call = "setreuid"
        /\ (ImpersonationOk /\ req.gid # 0 /\ ~panicked) =>
              \E g \in RestoreCalls : hostlog[g].call = "setregid"

C33_Witness ==
    /\ Served
    /\ req.op = "unlink"
    /\ req.uid # 0
    /\ req.gid # 0
    /\ Len(hostlog) = 6
    /\ hostlog[3].call = "canonicalize"
    /\ hostlog[4].call = "unlink"
    /\ hostlog[4].ok
    /\ euid = 0
    /\ egid = 0

(***************************************************************************)
(* Claims about removing read-only resources (SpecRequest).                *)
(***************************************************************************)
\* C34: an unlink or rmdir whose requested URI is matched by rofiles or
\* rodirs and by no other admission clause is denied and never forwarded to
\* the host.
C34_ReadOnlyNotRemovable ==
    (/\ Served
     /\ req.op \in {"unlink", "rmdir"}
     /\ MatchedReadOnly(config, NaturalUri)
     /\ ~MatchedReadWrite(config, NaturalUri)) =>
        /\ ~resp.ok
        /\ ForwardedCalls = {}

\* a directory listed only in rodirs was removed on the host
ReadOnlyRemoved ==
    /\ Served
    /\ req.op = "rmdir"
    /\ config.root = None
    /\ NaturalUri \in Elems(config.rodirs)
    /\ ~MatchedReadWrite(config, NaturalUri)
    /\ Call("rmdir", NaturalUri, TRUE) \in ForwardedCalls
    /\ resp.ok

(***************************************************************************)
(* Claims about the forked child (Spec).                                   *)
(***************************************************************************)
\* C35: after the fork the child is entering the namespace, inside it about
\* to execute or executing the command, or gone: it never comes back from
\* run_in_namespace into its caller, never runs outside the new namespace,
\* and never drops the ContainThread it inherited.
C35_ChildExecsOrExits ==
    /\ child.state \in {"none", "forked", "confined", "running", "exited"}
    /\ child.state \in {"confined", "running"} => child.ns = "new"

\* the child that could not enter the namespace has returned through
\* run_contained and written the parent's shutdown pipe while the parent waits
ChildDroppedSupervisor ==
    /\ child.state = "exited"
    /\ child.ns # "new"
    /\ pipe > 0
    /\ pc = "waiting"

(***************************************************************************)
(* Claims about the namespace of the caller of ContainThread::new (Spec).  *)
(***************************************************************************)
\* C36: once ContainThread::new has returned, with a ContainThread or with
\* any error, the calling thread is in the namespace it was in before the
\* call.
C36_CallerNamespaceRestored == pc # "start" => ens = "host"

\* construction failed on a refused scheme registration and run_contained
\* returned the error with the caller still in the new namespace
ReturnedInNewNamespace ==
    /\ pc = "done"
    /\ ret.kind = "SyscallError"
    /\ held.made
    /\ ~held.queue
    /\ child.state = "none"
    /\ ens = "new"

(***************************************************************************)
(* Claims about the subscriptions of the event queue (Spec).               *)
(***************************************************************************)
\* C37: while the scheme thread is at its loop, every scheme descriptor is
\* subscribed to the event queue under its index in sandbox_schemes and the
\* read end of the shutdown pipe under a key that no scheme has; the
\* subscriptions are made before the thread is spawned, and the thread is
\* spawned before the child is forked.
C37_SubscribedBeforeSpawnAndFork ==
    /\ worker = "running" =>
          /\ \A i \in 1..Len(config.sandbox_schemes) :
                [key |-> i - 1, fd |-> config.sandbox_schemes[i]] \in held.subs
          /\ held.fds = { s.fd : s \in held.subs } \ {ReadPipe}
          /\ \E s \in held.subs : s.fd = ReadPipe
          /\ \A s \in held.subs : \A t \in held.subs : s.key = t.key => s = t
    /\ child.state # "none" => worker # "none"
    /\ (child.state = "forked" /\ cause = "none") => worker = "running"

C37_Witness ==
    /\ worker = "running"
    /\ child.state = "forked"
    /\ Len(config.sandbox_schemes) = 2
    /\ Cardinality(held.subs) = 3
    /\ [key |-> 2, fd |-> ReadPipe] \in held.subs

(***************************************************************************)
(* Claims about a failed canonicalization (SpecRequest).                   *)
(***************************************************************************)
\* a request without creation reached the host's canonicalize, which failed
CanonicalizeFailed ==
    /\ Served
    /\ NonCreation
    /\ \E call \in CanonicalizeCalls : ~call.ok

\* C38 as stated: a request without creation whose resolved URI the host
\* cannot canonicalize is answered EPERM and nothing is forwarded.
C38_UncanonicalizableDeniedEperm ==
    CanonicalizeFailed =>
        /\ resp = Err("EPERM")
        /\ ForwardedCalls = {}

\* C38 amended: for a request without creation whose resolved URI the host
\* cannot canonicalize nothing is forwarded and the request never succeeds;
\* it is answered EPERM unless the handler of an unlink or rmdir panicked on
\* a failed restore of the server's uid or gid.
C38_UncanonicalizableNeverForwarded ==
    CanonicalizeFailed =>
        /\ ~resp.ok
        /\ ForwardedCalls = {}
        /\ ~panicked => resp = Err("EPERM")
        /\ panicked => req.op \in {"unlink", "rmdir"} /\ ~RestoresOk

C38_Witness ==
    /\ CanonicalizeFailed
    /\ req.op = "open"
    /\ req.uid # 0
    /\ Admitted(config, NaturalUri, req.flags)
    /\ config.root = None
    /\ resp = Err("EPERM")
    /\ ForwardedCalls = {}

====
